---- MODULE Spec2Model ----
(***************************************************************************)
(* A model of streamlit_battery.py: the parser of the battery container    *)
(* (loadMat), the per-cycle voltage statistics (cov_charge), the two chart *)
(* functions (plot_statistics, plot_voltage_curve) and the script main     *)
(* that wires them to the widgets and to the export.                       *)
(*                                                                         *)
(* Conventions of the model.                                               *)
(*  - A Python string that the code splits is a sequence of one-character  *)
(*    strings; "B5.mat" is <<"B","5",".","m","a","t">>.                    *)
(*  - A Python list is a sequence; list index k is sequence index k + 1.   *)
(*  - A value that may be None is a sequence of length 0 (None) or 1.      *)
(*  - A float is a fixed-point integer counting units of 1/Scale, rounded  *)
(*    down; voltage samples are whole volts.                               *)
(***************************************************************************)
EXTENDS Integers, Sequences, FiniteSets, TLC

VARIABLES
    uploaded_name,   \* main: uploaded_file.name, <<>> while nothing is uploaded
    container,       \* the uploaded container: top-level field name -> content
    pc,              \* the position of the script
    error,           \* the exception that ended the run, "none" otherwise
    filename,        \* loadMat: filename
    col,             \* loadMat: col, the array of cycle entries
    i,               \* loadMat: the loop index i
    result,          \* loadMat: result, the list being built
    data,            \* main: data, what loadMat returned
    statistics,      \* main: statistics, what cov_charge returned
    detail,          \* main: the indexes i of the data[i] shown by the detail view
    trend_fig,       \* main: fig, what plot_statistics returned
    cycle_indices,   \* main: cycle_indices, the argument of plot_voltage_curve
    voltage_fig,     \* main: voltage_fig, what plot_voltage_curve returned
    csv_data,        \* main: csv_data, the rows of cells of the export text
    file_name        \* main: the file_name of the download button

vars ==
    << uploaded_name, container, pc, error, filename, col, i, result, data,
       statistics, detail, trend_fig, cycle_indices, voltage_fig, csv_data,
       file_name >>

\* ------------------------------------------------------------------ bounds

\* The longest array of cycle entries of an uploaded container.
MaxCycles == 2

\* The longest voltage series handed to cov_charge on its own.
MaxLen == 3

\* Voltage samples handed to cov_charge on its own are 0 .. MaxVolt volts.
MaxVolt == 3

\* The longest list of indexes handed to plot_voltage_curve on its own.
MaxIdx == 2

\* Decimal digits kept by the fixed-point stand-in of a float.
DecimalDigits == 2

Scale == 10 ^ DecimalDigits

\* -------------------------------------------------------- program constants

RatioFactor == 1000

DisplayCap == 20

DisplayDefault == 5

RangeDefault == 5

\* ------------------------------------------------------------------ helpers

None == << >>

Some(v) == << v >>

Min(a, b) == IF a <= b THEN a ELSE b

RECURSIVE SumSeq(_)
SumSeq(s) == IF s = << >> THEN 0 ELSE Head(s) + SumSeq(Tail(s))

\* Python's range(a, b) as a list.
Range(a, b) == [k \in 1 .. (IF b > a THEN b - a ELSE 0) |-> a + k - 1]

RECURSIVE SqrtSearch(_, _, _)
SqrtSearch(n, lo, hi) ==
    IF lo >= hi THEN lo
    ELSE LET mid == (lo + hi + 1) \div 2
         IN  IF mid * mid <= n THEN SqrtSearch(n, mid, hi)
             ELSE SqrtSearch(n, lo, mid - 1)

\* The square root of n, rounded down.
ISqrt(n) == SqrtSearch(n, 0, Min(n, 46340))

\* All sequences over S of length at most n.
SeqsUpTo(S, n) == UNION {[1 .. k -> S] : k \in 0 .. n}

\* ------------------------------------------------------------ the container

Dot == "."

\* str.split('.')[0]: the characters before the first dot.
SplitFirst(name) ==
    LET dots == {k \in 1 .. Len(name) : name[k] = Dot}
        cut == IF dots = {} THEN Len(name) + 1
               ELSE CHOOSE k \in dots : \A m \in dots : k <= m
    IN  SubSeq(name, 1, cut - 1)

CycleTypes == {"discharge", "charge", "impedance"}

\* Which fixed position of a cycle entry is malformed, if any: 0 the type,
\* 1 the temperature, 2 the timestamp, 3 the channel record.
Shapes == {"ok", "type", "temp", "time", "data"}

\* The four channels of a cycle, index-aligned, for the voltage series v.
Channels(v) ==
    [Time |-> [k \in 1 .. Len(v) |-> (k - 1) * 10],
     Voltage_measured |-> v,
     Current_measured |-> [k \in 1 .. Len(v) |-> 2],
     Temperature_measured |-> [k \in 1 .. Len(v) |-> 24]]

\* A cycle entry of the container: col[i][0] type, col[i][1] temperature,
\* col[i][2] timestamp, col[i][3] channel record.
RawEntry(t, b, v) ==
    [type |-> t, bad |-> b, temp |-> 24, time |-> <<2008, 4, 2>>,
     data |-> Channels(v)]

\* Voltage series of the cycles of an uploaded container: no sample, a flat
\* series, a spread one.
SampleSeries == {<< >>, <<2, 2, 2>>, <<1, 3>>}

Entries ==
    {RawEntry("discharge", "ok", v) : v \in SampleSeries}
    \cup {RawEntry(t, "ok", <<1, 3>>) : t \in CycleTypes \ {"discharge"}}
    \cup {RawEntry(t, b, <<1, 3>>) : t \in CycleTypes, b \in Shapes \ {"ok"}}

\* The content of a top-level field: nested four levels deep around the array
\* of cycle entries, or (nested = FALSE) something else.
Field(c) == [nested |-> TRUE, cycles |-> c]

BadField == [nested |-> FALSE, cycles |-> << >>]

Fields == {Field(c) : c \in SeqsUpTo(Entries, MaxCycles)} \cup {BadField}

B5 == <<"B", "5">>

B6 == <<"B", "6">>

\* A container of DisplayDefault discharge cycles.
LongField ==
    Field([k \in 1 .. DisplayDefault |->
              RawEntry("discharge", "ok",
                       IF k % 3 = 1 THEN <<2, 2, 2>>
                       ELSE IF k % 3 = 2 THEN <<1, 3>> ELSE << >>)])

Containers ==
    {[n \in {B5} |-> f] : f \in Fields}
    \cup {[n \in {B5, B6} |-> IF n = B5 THEN Field(<<RawEntry("charge", "ok", <<1, 3>>)>>)
                              ELSE LongField]}

Mat == <<".", "m", "a", "t">>

UploadNames == {B5 \o Mat, B6 \o Mat, B5 \o <<".", "v", "2">> \o Mat}

\* ------------------------------------------------------------------ loadMat

\* convert_to_time: the first element of an array, as a string.
convert_to_time(time_data) == ToString(time_data[1])

\* The record loadMat builds of a discharge entry. The samples of a channel
\* are scalars, which the list comprehension copies as they are.
CycleRecord(e) ==
    [type |-> e.type, temp |-> e.temp, time |-> convert_to_time(e.time),
     data |-> e.data]

\* A loop body that keeps every entry, whatever its type.
RetainedAnyType(e) == TRUE

\* The test of the loop body: str(col[i][0][0]) == 'discharge'.
Retained(e) == e.type = "discharge"

\* A loop body that swallows a failed read of the temperature or timestamp.
EntryRaisesLenient(e) == e.bad \in {"data", "type"}

\* Whether one pass of the loop body over entry e raises: the channel record
\* and the type are read of every entry, the temperature and the timestamp
\* of a discharge entry only.
EntryRaises(e) ==
    \/ e.bad = "data"
    \/ e.bad = "type"
    \/ Retained(e) /\ e.bad \in {"temp", "time"}

\* An exception leaves loadMat (where = "load_failed") or main's own code
\* (where = "raised"); either way it ends the run of the script.
Raise(where, e) ==
    /\ pc' = where
    /\ error' = e

\* The user picks a file: uploaded_file is no longer None.
Upload ==
    /\ pc = "idle"
    /\ \E n \in UploadNames, c \in Containers :
        /\ uploaded_name' = n
        /\ container' = c
    /\ pc' = "load"
    /\ UNCHANGED << error, filename, col, i, result, data, statistics, detail,
                    trend_fig, cycle_indices, voltage_fig, csv_data, file_name >>

\* loadMat up to the loop: the name, the look-up, the four levels.
LoadMatLookup ==
    /\ pc = "load"
    /\ filename' = SplitFirst(uploaded_name)
    /\ IF filename' \notin DOMAIN container
       THEN Raise("load_failed", "KeyError") /\ UNCHANGED col
       ELSE IF ~container[filename'].nested
       THEN Raise("load_failed", "IndexError") /\ UNCHANGED col
       ELSE /\ col' = container[filename'].cycles
            /\ pc' = "loop"
            /\ UNCHANGED error
    /\ i' = 0
    /\ result' = << >>
    /\ UNCHANGED << uploaded_name, container, data, statistics, detail,
                    trend_fig, cycle_indices, voltage_fig, csv_data, file_name >>

\* One pass of the loop body.
LoadMatIter ==
    /\ pc = "loop"
    /\ i < Len(col)
    /\ LET e == col[i + 1]
       IN  IF EntryRaises(e)
           THEN Raise("load_failed", "IndexError") /\ UNCHANGED << i, result >>
           ELSE /\ result' = IF Retained(e)
                             THEN Append(result, CycleRecord(e))
                             ELSE result
                /\ i' = i + 1
                /\ UNCHANGED << pc, error >>
    /\ UNCHANGED << uploaded_name, container, filename, col, data, statistics,
                    detail, trend_fig, cycle_indices, voltage_fig, csv_data,
                    file_name >>

\* What loadMat hands back when the loop is over.
LoadMatResult == result

LoadMatReturn ==
    /\ pc = "loop"
    /\ i = Len(col)
    /\ data' = LoadMatResult
    /\ pc' = "loaded"
    /\ UNCHANGED << uploaded_name, container, error, filename, col, i, result,
                    statistics, detail, trend_fig, cycle_indices, voltage_fig,
                    csv_data, file_name >>

\* -------------------------------------------------------------- cov_charge

\* np.mean, in units of 1/Scale.
Mean(v) == (SumSeq(v) * Scale) \div Len(v)

\* The sample standard deviation (ddof = 1, divisor N - 1), 0 of one sample.
StdSample(v) ==
    LET n == Len(v)
        s == SumSeq(v)
        sq == SumSeq([k \in 1 .. n |-> (n * v[k] - s) * (n * v[k] - s)])
    IN  IF n = 1 THEN 0
        ELSE ISqrt((sq * Scale * Scale) \div (n * n * (n - 1)))

\* np.std with its default ddof = 0: the deviations from the mean, squared,
\* averaged over the N samples, and the square root of that. The deviations
\* are kept exact as (N * x - sum) / N.
Std(v) ==
    LET n == Len(v)
        s == SumSeq(v)
        sq == SumSeq([k \in 1 .. n |-> (n * v[k] - s) * (n * v[k] - s)])
    IN  ISqrt((sq * Scale * Scale) \div (n * n * n))

\* Statistics that are 0 of an empty series.
StatOfZero(v) ==
    IF Len(v) > 0
    THEN [mean_voltage |-> Some(Mean(v)), std_voltage |-> Some(Std(v)),
          std_to_mean_ratio |->
              Some(IF Mean(v) # 0
                   THEN (Std(v) * RatioFactor * Scale) \div Mean(v) ELSE 0)]
    ELSE [mean_voltage |-> Some(0), std_voltage |-> Some(0),
          std_to_mean_ratio |-> Some(0)]

\* The record cov_charge appends for the voltage series v.
StatOf(v) ==
    IF Len(v) > 0
    THEN LET mean_voltage == Mean(v)
             std_voltage == Std(v)
         IN  [mean_voltage |-> Some(mean_voltage),
              std_voltage |-> Some(std_voltage),
              std_to_mean_ratio |->
                  Some(IF mean_voltage # 0
                       THEN (std_voltage * RatioFactor * Scale) \div mean_voltage
                       ELSE 0)]
    ELSE [mean_voltage |-> None, std_voltage |-> None,
          std_to_mean_ratio |-> None]

\* A cov_charge that skips the cycles with no voltage sample.
cov_charge_skip_empty(d) ==
    LET kept == SelectSeq(d, LAMBDA r : Len(r.data.Voltage_measured) > 0)
    IN  [k \in 1 .. Len(kept) |-> StatOf(kept[k].data.Voltage_measured)]

cov_charge(d) == [k \in 1 .. Len(d) |-> StatOf(d[k].data.Voltage_measured)]

\* ----------------------------------------------------------------- widgets

\* The arguments main gives st.slider for the number of cycles to show.
DisplaySlider(cycles) ==
    [lo |-> 1, hi |-> Min(DisplayCap, cycles),
     value |-> <<DisplayDefault>>]

\* The arguments main gives st.slider for the range of cycles to draw.
RangeSlider(cycles) ==
    [lo |-> 1, hi |-> cycles, value |-> <<1, Min(RangeDefault, cycles)>>]

\* A slider the widget library takes as it is: a proper interval holding the
\* default value or values, in order.
SliderWellFormed(s) ==
    /\ s.lo < s.hi
    /\ \A k \in 1 .. Len(s.value) : s.lo <= s.value[k] /\ s.value[k] <= s.hi
    /\ \A k \in 1 .. Len(s.value) - 1 : s.value[k] <= s.value[k + 1]

Max(a, b) == IF a >= b THEN a ELSE b

\* The positions a slider offers. Of a slider that is not well-formed the
\* library either refuses the call or widens the interval to hold the
\* default; which one depends on its version.
SliderPositions(s) ==
    Min(s.lo, s.value[1]) .. Max(s.hi, s.value[Len(s.value)])

\* ---------------------------------------------------------- plot_statistics

Metrics == {"mean_voltage", "std_voltage", "std_to_mean_ratio"}

MetricLabel(m) ==
    CASE m = "mean_voltage" -> "average voltage"
      [] m = "std_voltage" -> "voltage standard deviation"
      [] m = "std_to_mean_ratio" -> "The ratio of standard deviation to mean value"

\* ax.plot(values): with no x given, the points are placed at 0, 1, 2, ...
PlotX(values) == Range(0, Len(values))

plot_statistics(stats, selected_metric, color, marker, linestyle) ==
    LET values == [k \in 1 .. Len(stats) |-> stats[k][selected_metric]]
    IN  [title |-> MetricLabel(selected_metric) \o " - discharge cycle",
         xlabel |-> "discharge cycle index",
         ylabel |-> MetricLabel(selected_metric),
         lines |-> << [x |-> PlotX(values), y |-> values, marker |-> marker,
                       linestyle |-> linestyle, color |-> color] >>]

\* -------------------------------------------------------- plot_voltage_curve

\* data[idx] of a Python list: a negative index counts from the end.
PyItem(d, idx) == d[IF idx >= 0 THEN idx + 1 ELSE Len(d) + idx + 1]

\* A line labelled with the 0-based index.
CurveLineZeroBased(d, idx) ==
    [x |-> PyItem(d, idx).data.Time,
     y |-> PyItem(d, idx).data.Voltage_measured,
     label |-> "cycle " \o ToString(idx)]

\* The line drawn for index idx.
CurveLine(d, idx) ==
    [x |-> PyItem(d, idx).data.Time,
     y |-> PyItem(d, idx).data.Voltage_measured,
     label |-> "cycle " \o ToString(idx + 1)]

RECURSIVE CurveLines(_, _)
CurveLines(d, idxs) ==
    IF idxs = << >> THEN << >>
    ELSE (IF Head(idxs) < Len(d) THEN << CurveLine(d, Head(idxs)) >> ELSE << >>)
         \o CurveLines(d, Tail(idxs))

\* data[idx] raises IndexError when idx passes the guard and is below -len.
CurveRaises(d, idxs) == \E k \in 1 .. Len(idxs) : idxs[k] < 0 - Len(d)

\* The figure, or None when an IndexError leaves the function.
plot_voltage_curve(d, idxs) ==
    IF CurveRaises(d, idxs) THEN None
    ELSE Some([title |-> "voltage curve", xlabel |-> "time (S)",
               ylabel |-> "voltage (V)", lines |-> CurveLines(d, idxs)])

\* ------------------------------------------------------------------- export

\* The digits of n, in a field of the given width, zero-padded.
RECURSIVE Digits(_, _)
Digits(n, width) ==
    IF width = 0 THEN ""
    ELSE Digits(n \div 10, width - 1) \o ToString(n % 10)

\* A float as decimal text.
FormatFloat(v) ==
    IF v < 0 THEN "-" \o ToString((0 - v) \div Scale) \o "."
                  \o Digits((0 - v) % Scale, DecimalDigits)
    ELSE ToString(v \div Scale) \o "." \o Digits(v % Scale, DecimalDigits)

\* A cell of a float column: na_rep for a missing value.
FormatCell(o) == IF o = None THEN "nan" ELSE FormatFloat(o[1])

ExportColumns ==
    << "cycle index", "mean voltage (V)", "voltage std-dev (V)",
       "std/mean ratio (x1000)" >>

\* export_df: the columns, and per row the row label of the default
\* RangeIndex (0, 1, 2, ...) and the four cells.
ExportFrame(stats, cycles) ==
    [columns |-> ExportColumns,
     index |-> Range(0, cycles),
     rows |-> [k \in 1 .. cycles |->
                  << ToString(Range(1, cycles + 1)[k]),
                     FormatCell(stats[k].mean_voltage),
                     FormatCell(stats[k].std_voltage),
                     FormatCell(stats[k].std_to_mean_ratio) >>]]

\* DataFrame.to_csv(sep='\t', na_rep='nan'), as the cells between the tabs of
\* each line. With the default index=True the row labels are written as a
\* first column, whose header cell is empty.
to_csv(df) ==
    << <<"">> \o df.columns >>
    \o [k \in 1 .. Len(df.rows) |-> <<ToString(df.index[k])>> \o df.rows[k]]

\* --------------------------------------------------------------------- main

NoData ==
    /\ pc = "loaded"
    /\ data = << >>
    /\ pc' = "warned"
    /\ UNCHANGED << uploaded_name, container, error, filename, col, i, result,
                    data, statistics, detail, trend_fig, cycle_indices,
                    voltage_fig, csv_data, file_name >>

Statistics ==
    /\ pc = "loaded"
    /\ data # << >>
    /\ statistics' = cov_charge(data)
    /\ pc' = "summary"
    /\ UNCHANGED << uploaded_name, container, error, filename, col, i, result,
                    data, detail, trend_fig, cycle_indices, voltage_fig,
                    csv_data, file_name >>

\* The detail view: the checkbox, the slider, the loop over data[i].
DetailView ==
    /\ pc = "summary"
    /\ LET cycles == Len(data)
           s == DisplaySlider(cycles)
       IN  \E show_data \in BOOLEAN :
             IF ~show_data
             THEN /\ detail' = << >>
                  /\ pc' = "trend"
                  /\ UNCHANGED error
             ELSE \/ /\ ~SliderWellFormed(s)
                     /\ Raise("raised", "StreamlitAPIException")
                     /\ detail' = << >>
                  \/ \E max_display \in SliderPositions(s) :
                       IF max_display > cycles
                       THEN /\ detail' = Range(0, cycles)
                            /\ Raise("raised", "IndexError")
                       ELSE /\ detail' = Range(0, max_display)
                            /\ pc' = "trend"
                            /\ UNCHANGED error
    /\ UNCHANGED << uploaded_name, container, filename, col, i, result, data,
                    statistics, trend_fig, cycle_indices, voltage_fig,
                    csv_data, file_name >>

\* The trend chart, with the picker's and the select boxes' first choices.
TrendChart ==
    /\ pc = "trend"
    /\ \E metric \in Metrics :
         trend_fig' = Some(plot_statistics(statistics, metric, "#FF0000", "o", "-"))
    /\ pc' = "curve"
    /\ UNCHANGED << uploaded_name, container, error, filename, col, i, result,
                    data, statistics, detail, cycle_indices, voltage_fig,
                    csv_data, file_name >>

\* The voltage curves of the cycles start .. end of the range slider.
VoltageChart ==
    /\ pc = "curve"
    /\ LET cycles == Len(data)
           s == RangeSlider(cycles)
       IN  \/ /\ ~SliderWellFormed(s)
              /\ Raise("raised", "StreamlitAPIException")
              /\ UNCHANGED << cycle_indices, voltage_fig >>
           \/ \E start \in SliderPositions(s), end \in SliderPositions(s) :
                /\ start <= end
                /\ cycle_indices' = Range(start - 1, end)
                /\ voltage_fig' = plot_voltage_curve(data, cycle_indices')
                /\ pc' = "export"
                /\ UNCHANGED error
    /\ UNCHANGED << uploaded_name, container, filename, col, i, result, data,
                    statistics, detail, trend_fig, csv_data, file_name >>

Export ==
    /\ pc = "export"
    /\ csv_data' = to_csv(ExportFrame(statistics, Len(data)))
    /\ file_name' = SplitFirst(uploaded_name) \o <<"_statistics.tsv">>
    /\ pc' = "done"
    /\ UNCHANGED << uploaded_name, container, error, filename, col, i, result,
                    data, statistics, detail, trend_fig, cycle_indices,
                    voltage_fig >>

\* Any interaction runs the script again from the top, the upload kept.
Rerun ==
    /\ pc \in {"done", "warned", "raised", "load_failed"}
    /\ pc' = "load"
    /\ error' = "none"
    /\ filename' = << >>
    /\ col' = << >>
    /\ i' = 0
    /\ result' = << >>
    /\ data' = << >>
    /\ statistics' = << >>
    /\ detail' = << >>
    /\ trend_fig' = None
    /\ cycle_indices' = << >>
    /\ voltage_fig' = None
    /\ csv_data' = << >>
    /\ file_name' = << >>
    /\ UNCHANGED << uploaded_name, container >>

Init ==
    /\ uploaded_name = << >>
    /\ container = << >>
    /\ pc = "idle"
    /\ error = "none"
    /\ filename = << >>
    /\ col = << >>
    /\ i = 0
    /\ result = << >>
    /\ data = << >>
    /\ statistics = << >>
    /\ detail = << >>
    /\ trend_fig = None
    /\ cycle_indices = << >>
    /\ voltage_fig = None
    /\ csv_data = << >>
    /\ file_name = << >>

Next ==
    \/ Upload
    \/ LoadMatLookup
    \/ LoadMatIter
    \/ LoadMatReturn
    \/ NoData
    \/ Statistics
    \/ DetailView
    \/ TrendChart
    \/ VoltageChart
    \/ Export
    \/ Rerun

Spec == Init /\ [][Next]_vars

\* ------------------------------------------------ cov_charge, called alone

\* A parsed discharge cycle with the voltage series v.
CycleOf(v) == CycleRecord(RawEntry("discharge", "ok", v))

Volts == 0 .. MaxVolt

InitStats ==
    /\ uploaded_name = << >>
    /\ container = << >>
    /\ pc = "call"
    /\ error = "none"
    /\ filename = << >>
    /\ col = << >>
    /\ i = 0
    /\ result = << >>
    /\ data \in {<< >>} \cup {<< CycleOf(v) >> : v \in SeqsUpTo(Volts, MaxLen)}
    /\ statistics = << >>
    /\ detail = << >>
    /\ trend_fig = None
    /\ cycle_indices = << >>
    /\ voltage_fig = None
    /\ csv_data = << >>
    /\ file_name = << >>

CallCovCharge ==
    /\ pc = "call"
    /\ statistics' = cov_charge(data)
    /\ pc' = "called"
    /\ UNCHANGED << uploaded_name, container, error, filename, col, i, result,
                    data, detail, trend_fig, cycle_indices, voltage_fig,
                    csv_data, file_name >>

NextStats == CallCovCharge

SpecStats == InitStats /\ [][NextStats]_vars

\* ---------------------------------------- plot_voltage_curve, called alone

InitCurve ==
    /\ uploaded_name = << >>
    /\ container = << >>
    /\ pc = "call"
    /\ error = "none"
    /\ filename = << >>
    /\ col = << >>
    /\ i = 0
    /\ result = << >>
    /\ data \in {[k \in DOMAIN vs |-> CycleOf(vs[k])] :
                    vs \in SeqsUpTo(SampleSeries, MaxCycles)}
    /\ statistics = << >>
    /\ detail = << >>
    /\ trend_fig = None
    /\ cycle_indices \in SeqsUpTo(-1 .. MaxCycles, MaxIdx)
    /\ voltage_fig = None
    /\ csv_data = << >>
    /\ file_name = << >>

CallPlotVoltageCurve ==
    /\ pc = "call"
    /\ voltage_fig' = plot_voltage_curve(data, cycle_indices)
    /\ IF voltage_fig' = None
       THEN Raise("raised", "IndexError")
       ELSE pc' = "called" /\ UNCHANGED error
    /\ UNCHANGED << uploaded_name, container, filename, col, i, result, data,
                    statistics, detail, trend_fig, cycle_indices, csv_data,
                    file_name >>

NextCurve == CallPlotVoltageCurve

SpecCurve == InitCurve /\ [][NextCurve]_vars

\* ------------------------------------------------------------------- claims

\* The script is past a loadMat that returned.
AfterLoad ==
    {"loaded", "warned", "summary", "trend", "curve", "export", "done", "raised"}

\* The script is past cov_charge.
AfterStats == {"summary", "trend", "curve", "export", "done", "raised"}

\* The records of the discharge entries of c, in the order of c.
RECURSIVE Discharges(_)
Discharges(c) ==
    IF c = << >> THEN << >>
    ELSE (IF Head(c).type = "discharge" THEN << CycleRecord(Head(c)) >>
          ELSE << >>) \o Discharges(Tail(c))

Voltage(r) == r.data.Voltage_measured

\* C1: whatever the container holds, every record loadMat returns has type
\* "discharge", and the returned list is exactly the records of the
\* discharge entries of the input, in input order; entries of any other
\* type contribute nothing.
C1_FilterInvariant ==
    pc \in AfterLoad =>
        /\ \A k \in 1 .. Len(data) : data[k].type = "discharge"
        /\ data = Discharges(col)

\* C1 witness: loadMat returned one record of a two-entry array whose first
\* entry is a charge cycle.
C1_Witness ==
    /\ pc = "loaded"
    /\ Len(col) = 2
    /\ col[1].type = "charge"
    /\ Len(data) = 1

\* C2: the statistics list is as long as the parsed list, and its record at
\* position k is the one of the cycle at position k, also when some cycles
\* have no voltage sample.
C2_AlignmentInvariant ==
    pc \in AfterStats =>
        /\ Len(statistics) = Len(data)
        /\ \A k \in 1 .. Len(data) : statistics[k] = StatOf(Voltage(data[k]))

\* C2 witness: two cycles, the first with no sample, the second with the
\* spread series, and the second statistics record is the spread one's.
C2_Witness ==
    /\ pc = "summary"
    /\ Len(data) = 2
    /\ Voltage(data[1]) = << >>
    /\ Voltage(data[2]) = <<1, 3>>
    /\ Len(statistics) = 2
    /\ statistics[2].std_voltage = Some(Scale)

\* C3: of a non-empty voltage series, mean_voltage is the arithmetic mean,
\* std_voltage the population standard deviation (divisor N), and
\* std_to_mean_ratio is std * 1000 / mean when the mean is not 0 and 0 when it
\* is (each to the resolution 1/Scale, rounded down); [2, 2, 2] gives 2, 0, 0
\* and [1, 3] gives 2, 1, 500.
C3_Statistics ==
    pc = "called" =>
        /\ Len(statistics) = Len(data)
        /\ \A k \in 1 .. Len(data) :
             LET v == Voltage(data[k])
                 n == Len(v)
                 s == SumSeq(v)
                 ss == SumSeq([j \in 1 .. n |-> v[j] * v[j]])
                 st == statistics[k]
             IN  n > 0 =>
                   /\ Len(st.mean_voltage) = 1
                   /\ Len(st.std_voltage) = 1
                   /\ Len(st.std_to_mean_ratio) = 1
                   /\ LET m == st.mean_voltage[1]
                          sd == st.std_voltage[1]
                          r == st.std_to_mean_ratio[1]
                      IN  /\ m * n <= s * Scale
                          /\ s * Scale < (m + 1) * n
                          /\ sd >= 0
                          /\ (sd * n) * (sd * n) <= (n * ss - s * s) * Scale * Scale
                          /\ (n * ss - s * s) * Scale * Scale
                                < ((sd + 1) * n) * ((sd + 1) * n)
                          /\ m = 0 => r = 0
                          /\ m # 0 => /\ r * m <= sd * RatioFactor * Scale
                                      /\ sd * RatioFactor * Scale < (r + 1) * m
                          /\ v = <<2, 2, 2>> => m = 2 * Scale /\ sd = 0 /\ r = 0
                          /\ v = <<1, 3>> =>
                               m = 2 * Scale /\ sd = Scale /\ r = 500 * Scale

\* C3 witness: cov_charge was called on the series [1, 3] and gave the ratio
\* 500.
C3_Witness ==
    /\ pc = "called"
    /\ Len(data) = 1
    /\ Voltage(data[1]) = <<1, 3>>
    /\ statistics[1].std_to_mean_ratio = Some(500 * Scale)

\* C4: of a voltage series with no sample cov_charge raises nothing and
\* yields a record whose three fields are all absent (not 0, not a number),
\* and a record has an absent field only if its series is empty.
C4_EmptySeries ==
    pc = "called" =>
        /\ error = "none"
        /\ Len(statistics) = Len(data)
        /\ \A k \in 1 .. Len(data) :
             LET st == statistics[k]
             IN  IF Voltage(data[k]) = << >>
                 THEN /\ st.mean_voltage = None
                      /\ st.std_voltage = None
                      /\ st.std_to_mean_ratio = None
                 ELSE /\ st.mean_voltage # None
                      /\ st.std_voltage # None
                      /\ st.std_to_mean_ratio # None

\* C4 witness: cov_charge was called on a cycle with no voltage sample.
C4_Witness ==
    /\ pc = "called"
    /\ Len(data) = 1
    /\ Voltage(data[1]) = << >>
    /\ statistics[1].mean_voltage = None

\* The base name of a file without its extension: what precedes the last dot.
Stem(name) ==
    LET dots == {k \in 1 .. Len(name) : name[k] = Dot}
        cut == IF dots = {} THEN Len(name) + 1
               ELSE CHOOSE k \in dots : \A m \in dots : k >= m
    IN  SubSeq(name, 1, cut - 1)

\* C5: loadMat looks up the top-level field named as the file's base name
\* without its extension; without such a field it fails with a lookup error
\* and returns nothing, and with one that field is the one parsed.
C5_LookupByStem ==
    pc \notin {"idle", "load"} =>
        IF Stem(uploaded_name) \notin DOMAIN container
        THEN pc = "load_failed" /\ error = "KeyError" /\ data = << >>
        ELSE /\ ~(pc = "load_failed" /\ error = "KeyError")
             /\ container[Stem(uploaded_name)].nested
                    => col = container[Stem(uploaded_name)].cycles

\* An entry with a malformed position that the loop body reads.
ReadMalformed(e) ==
    \/ e.bad \in {"type", "data"}
    \/ e.type = "discharge" /\ e.bad \in {"temp", "time"}

\* loadMat reached its loop over the field it looked up.
LoopEntered == filename \in DOMAIN container /\ container[filename].nested

\* C6, as claimed: if any entry of the array is malformed at a fixed
\* position, loadMat fails and returns nothing; otherwise it returns the
\* complete list.
C6_AnyMalformedEntryFails ==
    (pc \notin {"idle", "load", "loop"} /\ LoopEntered) =>
        IF \E k \in 1 .. Len(col) : col[k].bad # "ok"
        THEN pc = "load_failed" /\ data = << >>
        ELSE pc # "load_failed" /\ data = Discharges(col)

\* C6, amended: parsing is all-or-nothing. loadMat fails, and returns no
\* record at all, exactly when a read it performs fails: the channel record
\* or the type of any entry, the temperature or timestamp of a discharge
\* entry. Otherwise it returns the complete list; a malformed temperature or
\* timestamp of an entry of another type is never read.
C6_AllOrNothing ==
    /\ pc = "load_failed" =>
           /\ data = << >>
           /\ statistics = << >>
           /\ csv_data = << >>
           /\ LoopEntered => \E k \in 1 .. Len(col) : ReadMalformed(col[k])
    /\ pc \in AfterLoad =>
           /\ data = Discharges(col)
           /\ \A k \in 1 .. Len(col) : ~ReadMalformed(col[k])

\* C6 witness: loadMat failed on a malformed entry after it had built the
\* record of a well-formed discharge entry, and nothing was returned.
C6_Witness ==
    /\ pc = "load_failed"
    /\ Len(result) = 1
    /\ i = 1
    /\ ReadMalformed(col[2])
    /\ data = << >>

\* C7: the export is a header row of exactly the four columns and one row
\* per cycle holding the 1-based index and the three statistics, an absent
\* one as "nan".
C7_ExportFourColumns ==
    pc = "done" =>
        csv_data =
            << ExportColumns >>
            \o [k \in 1 .. Len(statistics) |->
                   << ToString(k), FormatCell(statistics[k].mean_voltage),
                      FormatCell(statistics[k].std_voltage),
                      FormatCell(statistics[k].std_to_mean_ratio) >>]

\* C8: the trend chart is one line whose k-th point has x = k, the 1-based
\* cycle index, and y = the selected metric of the k-th statistics record.
C8_TrendOneBased ==
    pc \in {"curve", "export", "done"} =>
        /\ Len(trend_fig) = 1
        /\ Len(trend_fig[1].lines) = 1
        /\ LET line == trend_fig[1].lines[1]
           IN  /\ Len(line.x) = Len(statistics)
               /\ Len(line.y) = Len(statistics)
               /\ \A k \in 1 .. Len(statistics) : line.x[k] = k
               /\ \E m \in Metrics :
                    \A k \in 1 .. Len(statistics) : line.y[k] = statistics[k][m]

\* The supplied indexes are positions: none is negative.
Positions == \A k \in 1 .. Len(cycle_indices) : cycle_indices[k] >= 0

\* C9, as claimed: for any supplied cycle indexes (positions, none negative)
\* the chart has exactly one line per supplied index, of the cycle at that
\* index, labelled index + 1; none is skipped.
C9_OneLinePerIndex ==
    (pc \in {"called", "raised"} /\ Positions) =>
        /\ Len(voltage_fig) = 1
        /\ Len(voltage_fig[1].lines) = Len(cycle_indices)
        /\ \A k \in 1 .. Len(cycle_indices) :
             LET idx == cycle_indices[k]
             IN  /\ idx < Len(data)
                 /\ voltage_fig[1].lines[k] =
                        [x |-> data[idx + 1].data.Time,
                         y |-> Voltage(data[idx + 1]),
                         label |-> "cycle " \o ToString(idx + 1)]

\* C9, amended: for supplied indexes that are all >= 0 the chart has exactly
\* one line per supplied index below len(data), in the order supplied, each
\* of the Time and Voltage_measured series of the cycle at that index and
\* labelled index + 1; a supplied index >= len(data) is skipped without a
\* line, and no other line is drawn.
C9_SkipsOutOfRange ==
    (pc \in {"called", "raised"} /\ Positions) =>
        LET kept == SelectSeq(cycle_indices, LAMBDA idx : idx < Len(data))
        IN  /\ pc = "called"
            /\ Len(voltage_fig) = 1
            /\ Len(voltage_fig[1].lines) = Len(kept)
            /\ \A k \in 1 .. Len(kept) :
                 voltage_fig[1].lines[k] =
                     [x |-> data[kept[k] + 1].data.Time,
                      y |-> Voltage(data[kept[k] + 1]),
                      label |-> "cycle " \o ToString(kept[k] + 1)]

\* C9 witness: the index len(data) and then the index 0 were supplied, and the
\* chart has the one line of cycle 1.
C9_Witness ==
    /\ pc = "called"
    /\ Len(data) >= 1
    /\ cycle_indices = << Len(data), 0 >>
    /\ Len(voltage_fig[1].lines) = 1
    /\ voltage_fig[1].lines[1].label = "cycle 1"

\* C10: with at least one discharge cycle both sliders are well-formed (the
\* default 5 within [1, min(20, cycles)]; the default range within
\* [1, cycles], whose lower bound is below its upper bound), and every
\* index used on data is within 0 .. cycles - 1.
C10_SlidersWellFormed ==
    pc \in AfterStats =>
        LET cycles == Len(data)
            d == DisplaySlider(cycles)
            r == RangeSlider(cycles)
        IN  /\ d.lo <= d.value[1] /\ d.value[1] <= d.hi
            /\ r.lo < r.hi
            /\ r.lo <= r.value[1] /\ r.value[1] <= r.value[2] /\ r.value[2] <= r.hi
            /\ error # "IndexError"
            /\ \A k \in 1 .. Len(detail) : 0 <= detail[k] /\ detail[k] < cycles
            /\ \A k \in 1 .. Len(cycle_indices) :
                 0 <= cycle_indices[k] /\ cycle_indices[k] < cycles

====
